---- MODULE Spec2Model ----
(***************************************************************************)
(* Model of the ACB box-score scraper (main.py, scraper.py).               *)
(*                                                                         *)
(* Texts are sequences of one-character strings, so that strip, split,     *)
(* startswith and replace are computed as Python computes them.  Labels     *)
(* that the code treats as one literal ("Público:", "Árb:", "JORNADA ")    *)
(* are one symbol of the sequence.                                         *)
(***************************************************************************)
EXTENDS Integers, Sequences, FiniteSets, Bags, TLC

(***************************************************************************)
(* Bounds of the model.                                                    *)
(***************************************************************************)
MaxId == 2

(***************************************************************************)
(* Program constants.                                                      *)
(***************************************************************************)
MaxAttempts == 3
MinCells == 23

(***************************************************************************)
(* Python str helpers.                                                     *)
(***************************************************************************)
IsSpace(c) == c \in {" ", "\n", "\t"}

RECURSIVE lstrip(_)
lstrip(s) ==
    IF s = <<>> THEN <<>>
    ELSE IF IsSpace(Head(s)) THEN lstrip(Tail(s)) ELSE s

RECURSIVE rstrip(_)
rstrip(s) ==
    IF s = <<>> THEN <<>>
    ELSE IF IsSpace(s[Len(s)]) THEN rstrip(SubSeq(s, 1, Len(s) - 1)) ELSE s

strip(s) == rstrip(lstrip(s))

RECURSIVE lstrip_chars(_, _)
lstrip_chars(s, ch) ==
    IF s = <<>> THEN <<>>
    ELSE IF Head(s) = ch THEN lstrip_chars(Tail(s), ch) ELSE s

RECURSIVE rstrip_chars(_, _)
rstrip_chars(s, ch) ==
    IF s = <<>> THEN <<>>
    ELSE IF s[Len(s)] = ch THEN rstrip_chars(SubSeq(s, 1, Len(s) - 1), ch) ELSE s

strip_chars(s, ch) == rstrip_chars(lstrip_chars(s, ch), ch)

startswith(s, ch) == s # <<>> /\ Head(s) = ch

\* s.split(sep): always at least one part; empty parts are kept.
RECURSIVE split_acc(_, _, _)
split_acc(s, sep, cur) ==
    IF s = <<>> THEN <<cur>>
    ELSE IF Head(s) = sep THEN <<cur>> \o split_acc(Tail(s), sep, <<>>)
    ELSE split_acc(Tail(s), sep, Append(cur, Head(s)))

split(s, sep) == split_acc(s, sep, <<>>)

\* s.split(): runs of whitespace separate, no empty parts.
RECURSIVE split_ws_acc(_, _)
split_ws_acc(s, cur) ==
    IF s = <<>> THEN (IF cur = <<>> THEN <<>> ELSE <<cur>>)
    ELSE IF IsSpace(Head(s))
         THEN (IF cur = <<>> THEN <<>> ELSE <<cur>>) \o split_ws_acc(Tail(s), <<>>)
         ELSE split_ws_acc(Tail(s), Append(cur, Head(s)))

split_ws(s) == split_ws_acc(s, <<>>)

\* s.replace(label, ''), the label being one symbol.
RECURSIVE remove_label(_, _)
remove_label(s, label) ==
    IF s = <<>> THEN <<>>
    ELSE IF Head(s) = label THEN remove_label(Tail(s), label)
    ELSE <<Head(s)>> \o remove_label(Tail(s), label)

RECURSIVE join(_, _)
join(parts, sep) ==
    IF parts = <<>> THEN <<>>
    ELSE IF Len(parts) = 1 THEN parts[1]
    ELSE parts[1] \o <<sep>> \o join(Tail(parts), sep)

(***************************************************************************)
(* Python dict: insertion-ordered keys and a value per key.                *)
(***************************************************************************)
EmptyDict == [keys |-> <<>>, val |-> <<>>]

HasKey(d, k) == \E i \in 1..Len(d.keys) : d.keys[i] = k

\* d.update(pairs): a key keeps its first position and takes its last value.
DictUpdate(d, pairs) ==
    LET given(k) == \E i \in 1..Len(pairs) : pairs[i][1] = k
        last(k) == CHOOSE i \in 1..Len(pairs) :
                      /\ pairs[i][1] = k
                      /\ \A j \in (i + 1)..Len(pairs) : pairs[j][1] # k
        fresh == SelectSeq([i \in 1..Len(pairs) |-> i],
                           LAMBDA i : /\ ~HasKey(d, pairs[i][1])
                                      /\ \A j \in 1..(i - 1) : pairs[j][1] # pairs[i][1])
        all_keys == d.keys \o [n \in 1..Len(fresh) |-> pairs[fresh[n]][1]]
    IN  [keys |-> all_keys,
         val  |-> [k \in {all_keys[i] : i \in 1..Len(all_keys)} |->
                     IF given(k) THEN pairs[last(k)][2] ELSE d.val[k]]]

DictFrom(pairs) == DictUpdate(EmptyDict, pairs)

DictSet(d, k, v) == DictUpdate(d, << <<k, v>> >>)

(***************************************************************************)
(* scraper.create_player_dict                                              *)
(***************************************************************************)
IdentityKeys == {"id_partido", "equipo", "titular", "dorsal", "nombre"}
PctKeys == {"T2 %", "T3 %", "T1 %"}
SplitKeys == {"T2", "T3", "T1"}

\* cell i of the Python list player_data (0-based)
cell(player_data, i) == player_data[i + 1]

rebound_parts(text) == split(text, "+")

rebotes_defensivos(d_o) == IF Len(d_o) > 0 THEN d_o[1] ELSE <<"0">>

rebotes_ofensivos(d_o) == IF Len(d_o) > 1 THEN d_o[2] ELSE <<"0">>

\* zero_form without the percentage branch
zero_form_no_pct(key) ==
    IF key = "minutos" THEN <<"0", "0", ":", "0", "0">>
    ELSE IF key \in SplitKeys THEN <<"0", "/", "0">>
    ELSE <<"0">>

zero_form(key) ==
    IF key = "minutos" THEN <<"0", "0", ":", "0", "0">>
    ELSE IF key \in PctKeys THEN <<"0", "%">>
    ELSE IF key \in SplitKeys THEN <<"0", "/", "0">>
    ELSE <<"0">>

fill_not_played(player_dict) ==
    [player_dict EXCEPT !.val =
        [key \in DOMAIN player_dict.val |->
            IF key \in IdentityKeys THEN player_dict.val[key] ELSE zero_form(key)]]

create_player_dict(player_data, game_id, team_name) ==
    LET base == DictFrom(<<
                <<"id_partido", game_id>>,
                <<"equipo", team_name>>,
                <<"titular", IF startswith(cell(player_data, 0), "*") THEN <<"*">> ELSE <<>> >>,
                <<"dorsal", strip_chars(cell(player_data, 0), "*")>>,
                <<"nombre", cell(player_data, 1)>>,
                <<"minutos", cell(player_data, 2)>>,
                <<"puntos", cell(player_data, 3)>>,
                <<"T2", cell(player_data, 4)>>,
                <<"T2 %", cell(player_data, 5)>>,
                <<"T3", cell(player_data, 6)>>,
                <<"T3 %", cell(player_data, 7)>>,
                <<"T1", cell(player_data, 8)>>,
                <<"T1 %", cell(player_data, 9)>> >>)
        d_o == rebound_parts(cell(player_data, 11))
        reb == DictUpdate(base, <<
                <<"rebotes_defensivos", rebotes_defensivos(d_o)>>,
                <<"rebotes_ofensivos", rebotes_ofensivos(d_o)>>,
                <<"rebotes_totales", cell(player_data, 10)>> >>)
        full == DictUpdate(reb, <<
                <<"asistencias", cell(player_data, 12)>>,
                <<"robos", cell(player_data, 13)>>,
                <<"perdidas", cell(player_data, 14)>>,
                <<"C", cell(player_data, 15)>>,
                <<"tapones_favor", cell(player_data, 16)>>,
                <<"tapones_contra", cell(player_data, 17)>>,
                <<"mates", cell(player_data, 18)>>,
                <<"faltas_cometidas", cell(player_data, 19)>>,
                <<"faltas_recibidas", cell(player_data, 20)>>,
                <<"+/-", cell(player_data, 21)>>,
                <<"V", cell(player_data, 22)>> >>)
    IN  IF full.val["minutos"] = <<>> THEN fill_not_played(full) ELSE full

(***************************************************************************)
(* Results of a call: a returned value or a raised exception.              *)
(***************************************************************************)
None == [kind |-> "none"]
Ret(v) == [kind |-> "value", value |-> v]
Raise(e) == [kind |-> "raise", exc |-> e]

\* Python truthiness of a call result handed to "if result:".
Truthy(r) == r.kind = "value"

(***************************************************************************)
(* Log entries: level, message kind and the game ID the message carries    *)
(* (0 when the message carries none).  The log is a bag of entries.        *)
(***************************************************************************)
Entry(level, kind, id) == [level |-> level, kind |-> kind, id |-> id]

Logged(entries) == SetToBag(entries)

RECURSIVE Times(_, _)
Times(entry, n) == IF n = 0 THEN EmptyBag ELSE SetToBag({entry}) (+) Times(entry, n - 1)

(***************************************************************************)
(* scraper.parse_table                                                     *)
(***************************************************************************)
\* headers without its last column
headers_without_v == <<
    "id_partido", "equipo", "titular", "dorsal", "nombre", "minutos", "puntos",
    "T2", "T2 %", "T3", "T3 %", "T1", "T1 %", "rebotes_defensivos", "rebotes_ofensivos",
    "rebotes_totales", "asistencias", "robos", "perdidas", "C", "tapones_favor",
    "tapones_contra", "mates", "faltas_cometidas", "faltas_recibidas", "+/-" >>

headers == <<
    "id_partido", "equipo", "titular", "dorsal", "nombre", "minutos", "puntos",
    "T2", "T2 %", "T3", "T3 %", "T1", "T1 %", "rebotes_defensivos", "rebotes_ofensivos",
    "rebotes_totales", "asistencias", "robos", "perdidas", "C", "tapones_favor",
    "tapones_contra", "mates", "faltas_cometidas", "faltas_recibidas", "+/-", "V" >>

\* rows[2:-4]
body_rows(rows) ==
    IF Len(rows) - 4 < 3 THEN <<>> ELSE SubSeq(rows, 3, Len(rows) - 4)

stripped_cells(row) == [i \in 1..Len(row) |-> strip(row[i])]

ordered_dict(player_dict) ==
    [keys |-> headers,
     val  |-> [key \in {headers[i] : i \in 1..Len(headers)} |->
                  IF HasKey(player_dict, key) THEN player_dict.val[key] ELSE <<>>]]

\* One iteration of the row loop: None for a skipped row, the record otherwise.
normalize_row(row, team_name, game_id) ==
    LET player_data == stripped_cells(row)
    IN  IF Len(player_data) < MinCells THEN None
        ELSE Ret(ordered_dict(create_player_dict(player_data, game_id, team_name)))

\* parse_rows leaving the loop at the first incomplete row
RECURSIVE parse_rows_until_short(_, _, _)
parse_rows_until_short(rows, team_name, game_id) ==
    IF rows = <<>> THEN [stats |-> <<>>, skipped |-> 0]
    ELSE LET player_dict == normalize_row(Head(rows), team_name, game_id)
             rest == parse_rows_until_short(Tail(rows), team_name, game_id)
         IN  IF player_dict = None
             THEN [stats |-> <<>>, skipped |-> 1]
             ELSE [stats |-> <<player_dict.value>> \o rest.stats, skipped |-> rest.skipped]

RECURSIVE parse_rows(_, _, _)
parse_rows(rows, team_name, game_id) ==
    IF rows = <<>> THEN [stats |-> <<>>, skipped |-> 0]
    ELSE LET player_dict == normalize_row(Head(rows), team_name, game_id)
             rest == parse_rows(Tail(rows), team_name, game_id)
         IN  IF player_dict = None
             THEN [stats |-> rest.stats, skipped |-> rest.skipped + 1]
             ELSE [stats |-> <<player_dict.value>> \o rest.stats, skipped |-> rest.skipped]

parse_table(table, team_name, game_id) ==
    LET parsed == parse_rows(body_rows(table), team_name, game_id)
    IN  [stats |-> parsed.stats,
         log   |-> Logged({Entry("debug", "parse_table_start", 0)})
                   (+) Times(Entry("warning", "incomplete_row", game_id), parsed.skipped)
                   (+) Logged({Entry("debug", "parse_table_end", 0)})]

(***************************************************************************)
(* scraper.extract_game_info.  A parsed document (soup) is a record of the *)
(* elements the selectors find: datos_fecha, datos_arbitros and parciales  *)
(* are sequences of the matching elements (select_one takes the first),    *)
(* resultado and h4 the texts of all matches, tables the statistics        *)
(* tables as rows of cell texts.                                           *)
(***************************************************************************)
select_one(elements) == IF elements = <<>> THEN <<>> ELSE <<Head(elements)>>

\* header_info.text read without "if header_info:"
header_fields_required(info, header_info) ==
    IF header_info = <<>> THEN Raise("AttributeError")
    ELSE LET info_text == split(strip(header_info[1].text), "|")
             pabellon_span == select_one(header_info[1].pabellon)
         IN  IF Len(info_text) < 3 THEN Raise("IndexError")
             ELSE Ret(DictUpdate(info, <<
                    <<"jornada", remove_label(strip(info_text[1]), "JORNADA ")>>,
                    <<"fecha", strip(info_text[2])>>,
                    <<"hora", strip(info_text[3])>>,
                    <<"pabellon", IF pabellon_span # <<>> THEN strip(pabellon_span[1])
                                  ELSE IF Len(info_text) > 3 THEN strip(info_text[4])
                                  ELSE <<>> >> >>))

header_fields(info, header_info) ==
    IF header_info = <<>> THEN Ret(info)
    ELSE LET info_text == split(strip(header_info[1].text), "|")
             pabellon_span == select_one(header_info[1].pabellon)
         IN  IF Len(info_text) < 3 THEN Raise("IndexError")
             ELSE Ret(DictUpdate(info, <<
                    <<"jornada", remove_label(strip(info_text[1]), "JORNADA ")>>,
                    <<"fecha", strip(info_text[2])>>,
                    <<"hora", strip(info_text[3])>>,
                    <<"pabellon", IF pabellon_span # <<>> THEN strip(pabellon_span[1])
                                  ELSE IF Len(info_text) > 3 THEN strip(info_text[4])
                                  ELSE <<>> >> >>))

public_fields(info, public_info) ==
    IF public_info = <<>> THEN info
    ELSE LET public_text == split(strip(public_info[1].text), "Público:")
         IN  IF Len(public_text) > 1
             THEN DictSet(info, "publico", strip(public_text[2]))
             ELSE info

arbitro_key(i) == IF i = 1 THEN "arbitro1" ELSE IF i = 2 THEN "arbitro2" ELSE "arbitro3"

\* enumerate(referee_list) without the [:3] slice
referee_fields_all(info, referees) ==
    IF referees = <<>> THEN info
    ELSE LET referee_list == split(strip(remove_label(referees[1], "Árb:")), ",")
         IN  DictUpdate(info, [i \in 1..Len(referee_list) |->
                                 <<arbitro_key(i), strip(referee_list[i])>>])

referee_fields(info, referees) ==
    IF referees = <<>> THEN info
    ELSE LET referee_list == split(strip(remove_label(referees[1], "Árb:")), ",")
             kept == SubSeq(referee_list, 1, IF Len(referee_list) < 3 THEN Len(referee_list) ELSE 3)
         IN  DictUpdate(info, [i \in 1..Len(kept) |-> <<arbitro_key(i), strip(kept[i])>>])

\* each final score assigned as soon as its element exists
result_fields_partial(info, result_elements) ==
    DictUpdate(info,
        [i \in 1..(IF Len(result_elements) < 2 THEN Len(result_elements) ELSE 2) |->
            <<IF i = 1 THEN "resultado_local" ELSE "resultado_visitante",
              strip(result_elements[i])>>])

result_fields(info, result_elements) ==
    IF Len(result_elements) = 2
    THEN DictUpdate(info, <<
            <<"resultado_local", strip(result_elements[1])>>,
            <<"resultado_visitante", strip(result_elements[2])>> >>)
    ELSE info

quarter_fields(info, quarters) ==
    IF quarters = <<>> THEN Ret(info)
    ELSE LET quarter_scores == split_ws(strip(quarters[1]))
             pairs == [i \in 1..Len(quarter_scores) |-> split(quarter_scores[i], "|")]
         IN  IF \E i \in 1..Len(pairs) : Len(pairs[i]) # 2 THEN Raise("ValueError")
             ELSE Ret(DictUpdate(info, <<
                    <<"parciales_local", join([i \in 1..Len(pairs) |-> pairs[i][1]], ",")>>,
                    <<"parciales_visitante", join([i \in 1..Len(pairs) |-> pairs[i][2]], ",")>> >>))

extract_game_info(soup, game_id) ==
    LET start == DictFrom(<< <<"id_partido", game_id>> >>)
        with_header == header_fields(start, select_one(soup.datos_fecha))
    IN  IF with_header.kind = "raise" THEN with_header
        ELSE LET with_public == public_fields(with_header.value, select_one(soup.datos_fecha))
                 with_referees == referee_fields(with_public, select_one(soup.datos_arbitros))
                 with_result == result_fields(with_referees, soup.resultado)
             IN  quarter_fields(with_result, select_one(soup.parciales))

(***************************************************************************)
(* scraper.get_game_data, from the parsed document on (lines 55-82).       *)
(***************************************************************************)
\* the structural failures returning the game info already extracted
get_game_data_keeps_info(soup, game_id) ==
    LET game_info == extract_game_info(soup, game_id)
        team_headers == soup.h4
        tables == soup.tables
    IN  IF game_info.kind = "raise" THEN [result |-> game_info, log |-> EmptyBag]
        ELSE IF Len(team_headers) < 2
        THEN [result |-> Ret([player_stats |-> <<>>, game_info |-> game_info.value]),
              log |-> Logged({Entry("error", "no_team_headers", game_id)})]
        ELSE IF Len(tables) < 2
        THEN [result |-> Ret([player_stats |-> <<>>, game_info |-> game_info.value]),
              log |-> Logged({Entry("info", "teams", game_id),
                              Entry("error", "no_tables", game_id)})]
        ELSE LET team1 == strip(team_headers[1])
                 team2 == strip(team_headers[2])
                 team1_stats == parse_table(tables[1], team1, game_id)
                 team2_stats == parse_table(tables[2], team2, game_id)
             IN  [result |-> Ret([player_stats |-> team1_stats.stats \o team2_stats.stats,
                                  game_info |-> game_info.value]),
                  log |-> Logged({Entry("info", "teams", game_id)})
                          (+) team1_stats.log (+) team2_stats.log
                          (+) Logged({Entry("info", "completed", game_id)})]

get_game_data(soup, game_id) ==
    LET game_info == extract_game_info(soup, game_id)
        team_headers == soup.h4
        tables == soup.tables
    IN  IF game_info.kind = "raise" THEN [result |-> game_info, log |-> EmptyBag]
        ELSE IF Len(team_headers) < 2
        THEN [result |-> None, log |-> Logged({Entry("error", "no_team_headers", game_id)})]
        ELSE IF Len(tables) < 2
        THEN [result |-> None,
              log |-> Logged({Entry("info", "teams", game_id),
                              Entry("error", "no_tables", game_id)})]
        ELSE LET team1 == strip(team_headers[1])
                 team2 == strip(team_headers[2])
                 team1_stats == parse_table(tables[1], team1, game_id)
                 team2_stats == parse_table(tables[2], team2, game_id)
             IN  [result |-> Ret([player_stats |-> team1_stats.stats \o team2_stats.stats,
                                  game_info |-> game_info.value]),
                  log |-> Logged({Entry("info", "teams", game_id)})
                          (+) team1_stats.log (+) team2_stats.log
                          (+) Logged({Entry("info", "completed", game_id)})]

(***************************************************************************)
(* main.process_game: the per-game boundary.                               *)
(***************************************************************************)
\* process_game without its try/except
process_game_uncaught(outcome, game_id) == outcome

process_game(outcome, game_id) ==
    IF outcome.result.kind = "raise"
    THEN [result |-> None,
          log |-> outcome.log (+) Logged({Entry("error", "process_game_error", game_id)})]
    ELSE outcome

(***************************************************************************)
(* tenacity: stop_after_attempt(3)                                         *)
(***************************************************************************)
\* stop_after_attempt(4)
stop_after_four(attempt_number) == attempt_number >= MaxAttempts + 1

stop_after_attempt(attempt_number) == attempt_number >= MaxAttempts

(***************************************************************************)
(* main.main: configuration check and range of game IDs.                   *)
(***************************************************************************)
range(a, b) == a..(b - 1)

\* range(start_id, end_id): the last ID left out
game_ids_exclusive(start_id, end_id) == range(start_id, end_id)

game_ids(start_id, end_id) == range(start_id, end_id + 1)

\* config.get(key) is None when the key is missing
is_none(cfg, key) == key \notin DOMAIN cfg

\* config_invalid without "start_id > end_id"
config_invalid_missing_only(cfg) ==
    IF is_none(cfg, "start_id") THEN TRUE ELSE is_none(cfg, "end_id")

config_invalid(cfg) ==
    IF is_none(cfg, "start_id") THEN TRUE
    ELSE IF is_none(cfg, "end_id") THEN TRUE
    ELSE cfg["start_id"] > cfg["end_id"]

(***************************************************************************)
(* pandas: DataFrame of a list of dicts, column completion and to_csv.     *)
(***************************************************************************)
columns == <<"id_partido", "jornada", "fecha", "hora", "pabellon", "publico",
             "arbitro1", "arbitro2", "arbitro3",
             "resultado_local", "resultado_visitante",
             "parciales_local", "parciales_visitante">>

NaN == [kind |-> "nan"]

RECURSIVE union_keys(_, _)
union_keys(records, seen) ==
    IF records = <<>> THEN seen
    ELSE LET ks == Head(records).keys
             fresh == SelectSeq(ks, LAMBDA k : \A i \in 1..Len(seen) : seen[i] # k)
         IN  union_keys(Tail(records), seen \o fresh)

DataFrame(records) ==
    LET cols == union_keys(records, <<>>)
    IN  [columns |-> cols,
         rows |-> [i \in 1..Len(records) |->
                     [c \in {cols[j] : j \in 1..Len(cols)} |->
                        IF HasKey(records[i], c) THEN Ret(records[i].val[c]) ELSE NaN]]]

\* df_games written with the columns the frame happens to have
frame_as_is(df) == df

\* for col in columns: if col not in df_games.columns: df_games[col] = '' ; df_games[columns]
complete_columns(df) ==
    [columns |-> columns,
     rows |-> [i \in 1..Len(df.rows) |->
                 [c \in {columns[j] : j \in 1..Len(columns)} |->
                    IF c \in DOMAIN df.rows[i] THEN df.rows[i][c] ELSE Ret(<<>>)]]]

\* to_csv(index=False): a header row, NaN written as the empty field.
to_csv(df) ==
    [header |-> df.columns,
     rows |-> [i \in 1..Len(df.rows) |->
                 [c \in DOMAIN df.rows[i] |->
                    IF df.rows[i][c] = NaN THEN <<>> ELSE df.rows[i][c].value]]]

RECURSIVE all_player_stats(_)
all_player_stats(game_results) ==
    IF game_results = <<>> THEN <<>>
    ELSE Head(game_results).player_stats \o all_player_stats(Tail(game_results))

all_game_info(game_results) == [i \in 1..Len(game_results) |-> game_results[i].game_info]

(***************************************************************************)
(* Inputs: raw rows, statistics tables and documents the server can send.  *)
(***************************************************************************)
\* A raw row of n cells: cell 0 the jersey cell, cell 2 the minutes, cell 11
\* the combined rebounds; every other cell a text that names its column.
Row(jersey, minutes, rebounds, f, n) ==
    [i \in 1..n |->
        IF i = 1 THEN jersey
        ELSE IF i = 3 THEN minutes
        ELSE IF i = 12 THEN rebounds
        ELSE <<" ", f, ToString(i - 1), " ">>]

HeaderRow == <<>>
FooterRow == << <<"T">> >>

Table(body) == <<HeaderRow, HeaderRow>> \o body \o <<FooterRow, FooterRow, FooterRow, FooterRow>>

PlayedRow == Row(<<"*", "7">>, <<"1", "2", ":", "3", "0">>, <<"3", "+", "2">>, "a", 23)
BenchRow == Row(<<"1", "5">>, <<>>, <<>>, "b", 23)
ShortRow == Row(<<"9">>, <<"0", "5", ":", "0", "0">>, <<"1">>, "c", 22)

GoodSoup ==
    [datos_fecha |-> << [text |-> <<"JORNADA ", "1", " ", "|", " ", "d", " ", "|", " ", "h",
                                    " ", "|", " ", "v", " ", "|", " ", "Público:", " ", "9">>,
                         pabellon |-> <<>>] >>,
     datos_arbitros |-> << <<"Árb:", " ", "P", ",", " ", "G", ",", " ", "L", ",", " ", "E">> >>,
     resultado |-> << <<"8", "0">>, <<"7", "5">> >>,
     parciales |-> << <<"2", "0", "|", "1", "8", " ", "4", "0", "|", "3", "9">> >>,
     h4 |-> << <<" ", "A">>, <<"B">> >>,
     tables |-> <<Table(<<PlayedRow>>), Table(<<BenchRow, ShortRow>>)>>]

NoHeadersSoup == [GoodSoup EXCEPT !.h4 = << <<"A">> >>]

OneTableSoup == [GoodSoup EXCEPT !.tables = <<Table(<<PlayedRow>>)>>]

BadQuarterSoup == [GoodSoup EXCEPT !.parciales = << <<"2", "0", "|", "1", "8", " ", "O", "T">> >>]

NoMetaSoup ==
    [GoodSoup EXCEPT !.datos_fecha = <<>>, !.datos_arbitros = <<>>,
                     !.resultado = <<>>, !.parciales = <<>>]

Documents == <<GoodSoup, NoHeadersSoup, OneTableSoup, BadQuarterSoup, NoMetaSoup>>

Statuses == {200, 404}

Ids == 1..MaxId

Configs ==
    UNION {[keys -> Ids] : keys \in SUBSET {"start_id", "end_id"}}

\* process_game on get_game_data's outcome, for each document and game ID
game_outcomes ==
    {[document |-> d, game_id |-> id,
      outcome |-> process_game(get_game_data(Documents[d], id), id)] :
        d \in 1..Len(Documents), id \in Ids}

game_outcome(d, id) ==
    (CHOOSE entry \in game_outcomes :
        entry.document = d /\ entry.game_id = id).outcome

(***************************************************************************)
(* State.                                                                  *)
(***************************************************************************)
VARIABLES
    config,        \* the loaded configuration
    mainpc,        \* position of main()
    pc,            \* position of each game's task
    dispatched,    \* how many tasks were created for each game ID
    requests,      \* HTTP requests issued for each game ID
    failures,      \* attempts of each game that the transport failed
    retry_delays,  \* inter-attempt delays started for each game
    status,        \* status of the response a task holds open, 0 for none
    attempt,       \* what the current attempt of each game has done, in order
    fetched,       \* the document fetch returned for each game, 0 for none
    result,        \* what each finished task resolved to
    completed,     \* finished tasks in completion order, not yet awaited
    awaited,       \* number of tasks the as_completed loop has awaited
    results,       \* process_games' results list
    log,           \* the log, a bag of entries
    csv,           \* the files written by save_to_csv, in order
    raw_row,       \* Row Normalizer: the raw row handed in
    record,        \* Row Normalizer: what it produced
    document,      \* one game's parsed document and ID handed to get_game_data
    game           \* what process_game returned for that document

vars == <<config, mainpc, pc, dispatched, requests, failures, retry_delays,
          status, attempt, fetched, result, completed, awaited, results, log, csv,
          raw_row, record, document, game>>

task_vars == <<pc, requests, failures, retry_delays, status, attempt,
               fetched, result, completed>>

main_vars == <<config, mainpc, dispatched, awaited, results, csv>>

row_vars == <<raw_row, record>>

extract_vars == <<document, game>>

Pending == [kind |-> "pending"]

IdleRow == /\ raw_row = <<>>
           /\ record = Pending

IdleExtract == /\ document = <<>>
               /\ game = Pending

Init ==
    /\ config \in Configs
    /\ mainpc = "start"
    /\ pc = [id \in Ids |-> "absent"]
    /\ dispatched = [id \in Ids |-> 0]
    /\ requests = [id \in Ids |-> 0]
    /\ failures = [id \in Ids |-> 0]
    /\ retry_delays = [id \in Ids |-> 0]
    /\ status = [id \in Ids |-> 0]
    /\ attempt = [id \in Ids |-> <<>>]
    /\ fetched = [id \in Ids |-> 0]
    /\ result = [id \in Ids |-> Pending]
    /\ completed = <<>>
    /\ awaited = 0
    /\ results = <<>>
    /\ log = EmptyBag
    /\ csv = <<>>
    /\ IdleRow
    /\ IdleExtract

(***************************************************************************)
(* main.main, lines 96-108, and process_games, lines 72-75.                *)
(***************************************************************************)
MainConfigError ==
    /\ mainpc = "start"
    /\ config_invalid(config)
    /\ log' = log (+) Logged({Entry("error", "invalid_config", 0)})
    /\ mainpc' = "config_error"
    /\ UNCHANGED <<config, dispatched, awaited, results, csv>>
    /\ UNCHANGED task_vars
    /\ UNCHANGED row_vars
    /\ UNCHANGED extract_vars

MainDispatch ==
    /\ mainpc = "start"
    /\ ~config_invalid(config)
    /\ LET tasks == game_ids(config["start_id"], config["end_id"])
       IN  /\ pc' = [id \in Ids |-> IF id \in tasks THEN "created" ELSE pc[id]]
           /\ dispatched' = [id \in Ids |-> IF id \in tasks THEN dispatched[id] + 1
                                            ELSE dispatched[id]]
           /\ mainpc' = IF tasks = {} THEN "closing" ELSE "collecting"
    /\ log' = log (+) Logged({Entry("info", "scraping_start", 0)})
    /\ UNCHANGED <<config, awaited, results, csv>>
    /\ UNCHANGED <<requests, failures, retry_delays, status, attempt,
                   fetched, result, completed>>
    /\ UNCHANGED row_vars
    /\ UNCHANGED extract_vars

(***************************************************************************)
(* scraper.get_game_data and scraper.fetch under tenacity's retry.  The    *)
(* steps are cut at the awaits: session.get, asyncio.sleep(rate_limit),    *)
(* response.text() and tenacity's sleep between attempts.                  *)
(***************************************************************************)
\* get_game_data, lines 51-53: fetch raised after the last attempt.
fetch_failed(game_id) ==
    [result |-> None, log |-> Logged({Entry("error", "fetch_failed", game_id)})]

\* a game that yields no result sent back to the retry loop
ResolveRetryingNone(id, outcome) ==
    IF outcome.result = None /\ requests[id] < MaxAttempts
    THEN /\ pc' = [pc EXCEPT ![id] = "retry_wait"]
         /\ log' = log (+) outcome.log
         /\ UNCHANGED <<result, completed>>
    ELSE /\ pc' = [pc EXCEPT ![id] = "done"]
         /\ result' = [result EXCEPT ![id] = outcome.result]
         /\ completed' = Append(completed, id)
         /\ log' = log (+) outcome.log

Resolve(id, outcome) ==
    /\ pc' = [pc EXCEPT ![id] = "done"]
    /\ result' = [result EXCEPT ![id] = outcome.result]
    /\ completed' = Append(completed, id)
    /\ log' = log (+) outcome.log

\* AttemptFailed retrying without the inter-attempt delay
AttemptFailedNoDelay(id, error) ==
    /\ failures' = [failures EXCEPT ![id] = @ + 1]
    /\ attempt' = [attempt EXCEPT ![id] = Append(@, error)]
    /\ IF stop_after_attempt(requests[id])
       THEN /\ Resolve(id, process_game(fetch_failed(id), id))
            /\ UNCHANGED retry_delays
       ELSE /\ pc' = [pc EXCEPT ![id] = "retry_wait"]
            /\ UNCHANGED <<retry_delays, result, completed, log>>

\* An attempt raised: tenacity either sleeps and retries or gives up.
AttemptFailed(id, error) ==
    /\ failures' = [failures EXCEPT ![id] = @ + 1]
    /\ attempt' = [attempt EXCEPT ![id] = Append(@, error)]
    /\ IF stop_after_attempt(requests[id])
       THEN /\ Resolve(id, process_game(fetch_failed(id), id))
            /\ UNCHANGED retry_delays
       ELSE /\ pc' = [pc EXCEPT ![id] = "retry_wait"]
            /\ retry_delays' = [retry_delays EXCEPT ![id] = @ + 1]
            /\ UNCHANGED <<result, completed, log>>

\* get_game_data line 47 and the first session.get of fetch.
TaskStart(id) ==
    /\ pc[id] = "created"
    /\ log' = log (+) Logged({Entry("info", "get_game_data", id)})
    /\ requests' = [requests EXCEPT ![id] = @ + 1]
    /\ attempt' = [attempt EXCEPT ![id] = <<"request">>]
    /\ pc' = [pc EXCEPT ![id] = "in_flight"]
    /\ UNCHANGED <<failures, retry_delays, status, fetched, result, completed>>
    /\ UNCHANGED main_vars
    /\ UNCHANGED row_vars
    /\ UNCHANGED extract_vars

\* session.get raises: connection error or timeout.
RequestFails(id) ==
    /\ pc[id] = "in_flight"
    /\ AttemptFailed(id, "connection_error")
    /\ UNCHANGED <<requests, status, fetched>>
    /\ UNCHANGED main_vars
    /\ UNCHANGED row_vars
    /\ UNCHANGED extract_vars

\* session.get yields a response; line 30 starts the rate-limit sleep.
ResponseArrives(id, code) ==
    /\ pc[id] = "in_flight"
    /\ status' = [status EXCEPT ![id] = code]
    /\ attempt' = [attempt EXCEPT ![id] = @ \o <<"response", "rate_limit_delay">>]
    /\ pc' = [pc EXCEPT ![id] = "rate_sleep"]
    /\ UNCHANGED <<requests, failures, retry_delays, fetched, result, completed, log>>
    /\ UNCHANGED main_vars
    /\ UNCHANGED row_vars
    /\ UNCHANGED extract_vars

\* The sleep ends, line 31 raise_for_status passes, line 32 starts reading.
StatusAccepted(id) ==
    /\ pc[id] = "rate_sleep"
    /\ status[id] < 400
    /\ attempt' = [attempt EXCEPT ![id] = Append(@, "status_check")]
    /\ pc' = [pc EXCEPT ![id] = "reading"]
    /\ UNCHANGED <<requests, failures, retry_delays, status, fetched,
                   result, completed, log>>
    /\ UNCHANGED main_vars
    /\ UNCHANGED row_vars
    /\ UNCHANGED extract_vars

\* The sleep ends, line 31 raise_for_status raises.
StatusRejected(id) ==
    /\ pc[id] = "rate_sleep"
    /\ status[id] >= 400
    /\ AttemptFailed(id, "status_error")
    /\ status' = [status EXCEPT ![id] = 0]
    /\ UNCHANGED <<requests, fetched>>
    /\ UNCHANGED main_vars
    /\ UNCHANGED row_vars
    /\ UNCHANGED extract_vars

\* response.text() raises.
BodyReadFails(id) ==
    /\ pc[id] = "reading"
    /\ AttemptFailed(id, "read_error")
    /\ status' = [status EXCEPT ![id] = 0]
    /\ UNCHANGED <<requests, fetched>>
    /\ UNCHANGED main_vars
    /\ UNCHANGED row_vars
    /\ UNCHANGED extract_vars

\* response.text() returns document d: fetch returns, and get_game_data
\* parses and extracts without another await.
BodyRead(id, d) ==
    /\ pc[id] = "reading"
    /\ fetched' = [fetched EXCEPT ![id] = d]
    /\ attempt' = [attempt EXCEPT ![id] = Append(@, "body_read")]
    /\ Resolve(id, game_outcome(d, id))
    /\ status' = [status EXCEPT ![id] = 0]
    /\ UNCHANGED <<requests, failures, retry_delays>>
    /\ UNCHANGED main_vars
    /\ UNCHANGED row_vars
    /\ UNCHANGED extract_vars

\* the next attempt issued without waiting for the previous one to end
RetryWithoutWaiting(id) ==
    /\ pc[id] \in {"retry_wait", "in_flight"}
    /\ requests[id] < MaxAttempts
    /\ requests' = [requests EXCEPT ![id] = @ + 1]
    /\ attempt' = [attempt EXCEPT ![id] = <<"request">>]
    /\ pc' = [pc EXCEPT ![id] = "in_flight"]
    /\ UNCHANGED <<failures, retry_delays, status, fetched, result,
                   completed, log>>
    /\ UNCHANGED main_vars
    /\ UNCHANGED row_vars
    /\ UNCHANGED extract_vars

\* tenacity's sleep ends and the next attempt issues its request.
RetryDelayDone(id) ==
    /\ pc[id] = "retry_wait"
    /\ requests' = [requests EXCEPT ![id] = @ + 1]
    /\ attempt' = [attempt EXCEPT ![id] = <<"request">>]
    /\ pc' = [pc EXCEPT ![id] = "in_flight"]
    /\ UNCHANGED <<failures, retry_delays, status, fetched, result,
                   completed, log>>
    /\ UNCHANGED main_vars
    /\ UNCHANGED row_vars
    /\ UNCHANGED extract_vars

(***************************************************************************)
(* main.process_games, lines 75-79: the as_completed loop.                 *)
(***************************************************************************)
Collect ==
    /\ mainpc = "collecting"
    /\ completed # <<>>
    /\ LET f == result[Head(completed)]
           total == Cardinality(game_ids(config["start_id"], config["end_id"]))
       IN  /\ awaited' = awaited + 1
           /\ completed' = Tail(completed)
           /\ IF f.kind = "raise"
              THEN /\ mainpc' = "crashed"
                   /\ UNCHANGED results
              ELSE /\ results' = IF Truthy(f) THEN Append(results, f.value) ELSE results
                   /\ mainpc' = IF awaited + 1 = total THEN "closing" ELSE "collecting"
    /\ UNCHANGED <<config, dispatched, csv, log>>
    /\ UNCHANGED <<pc, requests, failures, retry_delays, status, attempt,
                   fetched, result>>
    /\ UNCHANGED row_vars
    /\ UNCHANGED extract_vars

(***************************************************************************)
(* main.main, lines 110-143.                                               *)
(***************************************************************************)
MainNoData ==
    /\ mainpc = "closing"
    /\ results = <<>>
    /\ log' = log (+) Logged({Entry("error", "no_data", 0)})
    /\ mainpc' = "empty_batch"
    /\ UNCHANGED <<config, dispatched, awaited, results, csv>>
    /\ UNCHANGED task_vars
    /\ UNCHANGED row_vars
    /\ UNCHANGED extract_vars

MainSave ==
    /\ mainpc = "closing"
    /\ results # <<>>
    /\ \E df_players \in {DataFrame(all_player_stats(results))} :
       \E df_games \in {complete_columns(DataFrame(all_game_info(results)))} :
           csv' = csv \o << [file |-> "output_file", data |-> to_csv(df_players)],
                            [file |-> "output_file_game", data |-> to_csv(df_games)] >>
    /\ log' = log (+) Logged({Entry("info", "total_player_stats", 0),
                              Entry("info", "total_game_info", 0)})
                  (+) Times(Entry("info", "saved", 0), 2)
    /\ mainpc' = "saved"
    /\ UNCHANGED <<config, dispatched, awaited, results>>
    /\ UNCHANGED task_vars
    /\ UNCHANGED row_vars
    /\ UNCHANGED extract_vars

Next ==
    \/ MainConfigError
    \/ MainDispatch
    \/ \E id \in Ids : TaskStart(id)
    \/ \E id \in Ids : RequestFails(id)
    \/ \E id \in Ids : \E code \in Statuses : ResponseArrives(id, code)
    \/ \E id \in Ids : StatusAccepted(id)
    \/ \E id \in Ids : StatusRejected(id)
    \/ \E id \in Ids : BodyReadFails(id)
    \/ \E id \in Ids : \E d \in 1..Len(Documents) : BodyRead(id, d)
    \/ \E id \in Ids : RetryDelayDone(id)
    \/ Collect
    \/ MainNoData
    \/ MainSave

Spec == Init /\ [][Next]_vars

\* The event loop runs every ready task, timers fire and requests end.
FairSpec == Spec /\ WF_vars(Next)

(***************************************************************************)
(* The Row Normalizer on its own: one raw row in, one record or a skip out.*)
(***************************************************************************)
MaxExtraCells == 1

Jerseys == { <<"*", "7">>, <<"7">>, <<"*">>, <<>> }
Minutes == { <<>>, <<" ">>, <<"1", "2", ":", "3", "0">> }
Rebounds == { <<"3", "+", "2">>, <<"5">>, <<"+", "4">>, <<"3", "+">>, <<>>, <<"+">> }

RawRows ==
    { Row(j, m, r, f, n) : j \in Jerseys, m \in Minutes, r \in Rebounds, f \in {"a", "b"},
                           n \in (MinCells - 1)..(MinCells + MaxExtraCells) }

RowInit ==
    /\ config = <<>>
    /\ mainpc = "start"
    /\ pc = [id \in Ids |-> "absent"]
    /\ dispatched = [id \in Ids |-> 0]
    /\ requests = [id \in Ids |-> 0]
    /\ failures = [id \in Ids |-> 0]
    /\ retry_delays = [id \in Ids |-> 0]
    /\ status = [id \in Ids |-> 0]
    /\ attempt = [id \in Ids |-> <<>>]
    /\ fetched = [id \in Ids |-> 0]
    /\ result = [id \in Ids |-> Pending]
    /\ completed = <<>>
    /\ awaited = 0
    /\ results = <<>>
    /\ log = EmptyBag
    /\ csv = <<>>
    /\ raw_row \in [cells : RawRows, team_name : { <<"A">> }, game_id : Ids]
    /\ record = Pending
    /\ IdleExtract

\* The body of parse_table's row loop on one row, with its warning on a skip.
NormalizeRow ==
    /\ record = Pending
    /\ raw_row # <<>>
    /\ record' = normalize_row(raw_row.cells, raw_row.team_name, raw_row.game_id)
    /\ log' = IF record' = None
              THEN log (+) Logged({Entry("warning", "incomplete_row", raw_row.game_id)})
              ELSE log
    /\ UNCHANGED raw_row
    /\ UNCHANGED main_vars
    /\ UNCHANGED task_vars
    /\ UNCHANGED extract_vars

RowNext == NormalizeRow

RowSpec == RowInit /\ [][RowNext]_vars

(***************************************************************************)
(* One game on its own: get_game_data from the parsed document on, through *)
(* process_game into the results list (possibly after another game), then  *)
(* main's closing steps.  The documents vary each element that             *)
(* extract_game_info and parse_table read.                                 *)
(***************************************************************************)
DateBlocks ==
    { <<>>,
      << [text |-> <<"JORNADA ", "1", " ", "|", " ", "d", " ", "|", " ", "h">>,
          pabellon |-> <<>>] >>,
      << [text |-> <<"JORNADA ", "1", "|", "d", "|", "h", "|", " ", "v", " ">>,
          pabellon |-> <<>>] >>,
      GoodSoup.datos_fecha,
      << [text |-> <<"JORNADA ", "1", "|", "d", "|", "h", "|", "v">>,
          pabellon |-> << <<" ", "s">> >>] >>,
      << [text |-> <<"JORNADA ", "1", " ", "|", " ", "d">>, pabellon |-> <<>>] >> }

RefereeBlocks ==
    { <<>>,
      << <<"Árb:">> >>,
      << <<"Árb:", " ", "P", " ">> >>,
      << <<"Árb:", " ", "P", ",", "G">> >>,
      << <<"Árb:", "P", ",", " ", "G", " ", ",", "L">> >>,
      GoodSoup.datos_arbitros }

ResultLists ==
    { <<>>,
      << <<"8", "0">> >>,
      << <<" ", "8", "0">>, <<"7", "5", " ">> >>,
      << <<"8", "0">>, <<"7", "5">>, <<"1">> >> }

QuarterBlocks ==
    { <<>>,
      << <<>> >>,
      << <<" ", "2", "0", "|", "1", "8", " ", " ", "4", "0", "|", "3", "9", " ", "9", "|", "7">> >>,
      << <<"2", "0", "|", "1", "8", " ", "O", "T">> >>,
      << <<"1", "|", "2", "|", "3">> >> }

TablePairs ==
    { GoodSoup.tables,
      <<Table(<<ShortRow, PlayedRow>>), Table(<<BenchRow, ShortRow, PlayedRow, ShortRow>>)>>,
      <<Table(<<>>), Table(<<ShortRow>>)>> }

ExtractDocuments ==
    { [GoodSoup EXCEPT !.datos_fecha = f, !.datos_arbitros = a,
                       !.resultado = r, !.parciales = q] :
        f \in DateBlocks, a \in RefereeBlocks, r \in ResultLists, q \in QuarterBlocks }
    \cup { [m EXCEPT !.tables = t] : m \in {GoodSoup, NoMetaSoup}, t \in TablePairs }
    \cup { NoHeadersSoup, OneTableSoup }

\* the results list before this game is collected: empty, or one other game
EarlierResults(game_id) ==
    { <<>> } \cup
    { <<entry.outcome.result.value>> :
        entry \in { e \in game_outcomes : /\ e.document \in {1, Len(Documents)}
                                         /\ e.game_id # game_id
                                         /\ Truthy(e.outcome.result) } }

ExtractInit ==
    /\ config = <<>>
    /\ mainpc = "collecting"
    /\ pc = [id \in Ids |-> "absent"]
    /\ dispatched = [id \in Ids |-> 0]
    /\ requests = [id \in Ids |-> 0]
    /\ failures = [id \in Ids |-> 0]
    /\ retry_delays = [id \in Ids |-> 0]
    /\ status = [id \in Ids |-> 0]
    /\ attempt = [id \in Ids |-> <<>>]
    /\ fetched = [id \in Ids |-> 0]
    /\ result = [id \in Ids |-> Pending]
    /\ completed = <<>>
    /\ awaited = 0
    /\ log = EmptyBag
    /\ csv = <<>>
    /\ IdleRow
    /\ document \in [soup : ExtractDocuments, game_id : Ids]
    /\ results \in EarlierResults(document.game_id)
    /\ game = Pending

\* scraper.get_game_data lines 55-82 under main.process_game, and the last
\* turn of process_games' loop, lines 76-79.
ExtractGame ==
    /\ mainpc = "collecting"
    /\ game = Pending
    /\ document # <<>>
    /\ \E outcome \in {process_game(get_game_data(document.soup, document.game_id),
                                    document.game_id)} :
        /\ game' = outcome.result
        /\ log' = log (+) outcome.log
        /\ results' = IF Truthy(outcome.result)
                      THEN Append(results, outcome.result.value) ELSE results
    /\ mainpc' = "closing"
    /\ UNCHANGED <<config, dispatched, awaited, csv, document>>
    /\ UNCHANGED task_vars
    /\ UNCHANGED row_vars

ExtractNext ==
    \/ ExtractGame
    \/ MainNoData
    \/ MainSave

ExtractSpec == ExtractInit /\ [][ExtractNext]_vars

(***************************************************************************)
(* Properties.                                                             *)
(***************************************************************************)
Present(key) == key \in DOMAIN config

InvalidRange ==
    IF Present("start_id") /\ Present("end_id")
    THEN config["start_id"] > config["end_id"]
    ELSE TRUE

\* the IDs of the configured inclusive range
RangeIds ==
    IF InvalidRange THEN {}
    ELSE {id \in Ids : config["start_id"] <= id /\ id <= config["end_id"]}

Finalized == mainpc \in {"empty_batch", "saved"}

\* a document whose extraction fails: a team header or a statistics table
\* missing, or a quarter token without its pipe
StructuralFailure(d) ==
    \/ Len(Documents[d].h4) < 2
    \/ Len(Documents[d].tables) < 2
    \/ Documents[d] = BadQuarterSoup

\* F: the IDs whose transport failed three times or whose document fails
FailedIds ==
    {id \in RangeIds : \/ failures[id] = 3
                       \/ (fetched[id] # 0 /\ StructuralFailure(fetched[id]))}

FailureKinds == {"fetch_failed", "no_team_headers", "no_tables", "process_game_error"}

\* the failures the run reports: its error entries that give a game up
FailureCount ==
    LET given_up == {e \in BagToSet(log) : e.level = "error" /\ e.kind \in FailureKinds}
    IN  BagCardinality([e \in given_up |-> log[e]])

ResultIds == {results[i].game_info.val["id_partido"] : i \in 1..Len(results)}

PlayerIds ==
    UNION { {results[i].player_stats[j].val["id_partido"] :
                j \in 1..Len(results[i].player_stats)} : i \in 1..Len(results) }

C2_RetryThenSuccess ==
    \A id \in Ids :
        fetched[id] # 0 =>
            /\ failures[id] \in {0, 1, 2}
            /\ requests[id] = failures[id] + 1
            /\ retry_delays[id] = failures[id]

C2_Witness ==
    \E id \in Ids : /\ fetched[id] # 0
                    /\ failures[id] = 2
                    /\ requests[id] = 3
                    /\ retry_delays[id] = 2

\* C3: three failed attempts end the game: no fourth request, get_game_data
\* returns no data and logs it, nothing is raised to process_game or beyond.
C3_RetriesExhausted ==
    /\ mainpc # "crashed"
    /\ \A id \in Ids :
        /\ requests[id] <= 3
        /\ failures[id] = 3 =>
            /\ requests[id] = 3
            /\ pc[id] = "done"
            /\ result[id] = None
            /\ CopiesIn(Entry("error", "fetch_failed", id), log) = 1
            /\ CopiesIn(Entry("error", "process_game_error", id), log) = 0

C3_Witness ==
    /\ mainpc = "saved"
    /\ \E id \in Ids : failures[id] = 3 /\ result[id] = None
    /\ \E id \in Ids : result[id].kind = "value"

Position(events, e) == CHOOSE i \in 1..Len(events) : events[i] = e

Happened(events, e) == \E i \in 1..Len(events) : events[i] = e

AttemptErrors == {"connection_error", "status_error", "read_error"}

\* C4: within an attempt the rate-limit delay comes after the status check
\* and the body read, and an attempt that fails has no rate-limit delay.
C4_RateLimitAfterRead ==
    \A id \in Ids :
        Happened(attempt[id], "rate_limit_delay") =>
            /\ Happened(attempt[id], "status_check")
            /\ Happened(attempt[id], "body_read")
            /\ Position(attempt[id], "status_check") < Position(attempt[id], "rate_limit_delay")
            /\ Position(attempt[id], "body_read") < Position(attempt[id], "rate_limit_delay")
            /\ \A e \in AttemptErrors : ~Happened(attempt[id], e)

\* C5: with a bound missing or start_id > end_id the run goes to the
\* configuration error and no task is created and no request issued.
C5_ConfigError ==
    InvalidRange =>
        /\ mainpc \in {"start", "config_error"}
        /\ \A id \in Ids : pc[id] = "absent" /\ dispatched[id] = 0 /\ requests[id] = 0

C5_Witness ==
    /\ mainpc = "config_error"
    /\ Present("start_id") /\ Present("end_id")
    /\ config["start_id"] > config["end_id"]
    /\ CopiesIn(Entry("error", "invalid_config", 0), log) = 1

AllResolved == \A id \in RangeIds : pc[id] = "done"

\* C6: for a valid range, whatever the transport and the documents do, every
\* task resolves and main reaches its end with the results collected, and no
\* exception is raised, also when no game succeeds.
C6_Termination ==
    /\ [](mainpc # "crashed")
    /\ (~InvalidRange) ~> (Finalized /\ AllResolved /\ awaited = Cardinality(RangeIds))

C6_Witness ==
    /\ mainpc = "empty_batch"
    /\ Cardinality(RangeIds) >= 2
    /\ AllResolved
    /\ \A id \in RangeIds : result[id] = None

\* C7: when no game of the range succeeds, the empty batch is reported and
\* both files are still written, each from an empty collection.
C7_EmptyBatchSerialized ==
    (Finalized /\ results = <<>>) =>
        /\ CopiesIn(Entry("error", "no_data", 0), log) = 1
        /\ Len(csv) = 2
        /\ \A i \in 1..Len(csv) : csv[i].data.rows = <<>>

ErrorEntryFor(id, kinds) ==
    \E e \in BagToSet(log) : e.id = id /\ e.level \in {"error", "warning"} /\ e.kind \in kinds

\* C8: every error of a game has a log entry with its ID: a failed fetch
\* attempt, retries exhausted, missing team headers, missing tables, an
\* exception during extraction; and a game missing from the results has one.
C8_EveryErrorLogged ==
    \A id \in Ids :
        /\ failures[id] >= 1 => ErrorEntryFor(id, {"fetch_attempt_failed", "fetch_failed"})
        /\ (pc[id] = "done" /\ result[id] = None) => ErrorEntryFor(id, FailureKinds)

(***************************************************************************)
(* Properties of the Row Normalizer.                                       *)
(***************************************************************************)
Normalized == record # Pending /\ record.kind = "value"

RawCell(i) == strip(raw_row.cells[i + 1])

CountingKeys ==
    {"puntos", "rebotes_defensivos", "rebotes_ofensivos", "rebotes_totales", "asistencias",
     "robos", "perdidas", "C", "tapones_favor", "tapones_contra", "mates",
     "faltas_cometidas", "faltas_recibidas", "+/-", "V"}

WithoutStars(text) == SelectSeq(text, LAMBDA c : c # "*")

\* C9: a row of at least 23 cells with empty minutes gives minutes "00:00",
\* T2/T3/T1 "0/0", the percentages "0%", every other statistic "0", and keeps
\* game id, team, starter, jersey and name.
C9_DidNotPlay ==
    (record # Pending /\ Len(raw_row.cells) >= 23 /\ RawCell(2) = <<>>) =>
        /\ record.kind = "value"
        /\ record.value.val["minutos"] = <<"0", "0", ":", "0", "0">>
        /\ \A k \in {"T2", "T3", "T1"} : record.value.val[k] = <<"0", "/", "0">>
        /\ \A k \in {"T2 %", "T3 %", "T1 %"} : record.value.val[k] = <<"0", "%">>
        /\ \A k \in CountingKeys : record.value.val[k] = <<"0">>
        /\ record.value.val["id_partido"] = raw_row.game_id
        /\ record.value.val["equipo"] = raw_row.team_name
        /\ record.value.val["titular"] =
              (IF RawCell(0) # <<>> /\ RawCell(0)[1] = "*" THEN <<"*">> ELSE <<>>)
        /\ record.value.val["dorsal"] = WithoutStars(RawCell(0))
        /\ record.value.val["nombre"] = RawCell(1)

C9_Witness ==
    /\ Normalized
    /\ Len(raw_row.cells) > 23
    /\ raw_row.cells[3] = <<" ">>
    /\ raw_row.cells[12] = <<"3", "+", "2">>
    /\ raw_row.cells[1] = <<"*", "7">>
    /\ record.value.val["rebotes_defensivos"] = <<"0">>

\* side i of the combined rebounds cell, "0" when missing or empty
ReboundSide(text, i) ==
    LET parts == split(text, "+")
    IN  IF Len(parts) >= i /\ parts[i] # <<>> THEN parts[i] ELSE <<"0">>

\* C10: a played row's rebounds cell D+O gives defensive D and offensive O,
\* "0" for a side that is missing or empty; the total is the total cell.
C10_ReboundsSplit ==
    (record # Pending /\ Len(raw_row.cells) >= 23 /\ RawCell(2) # <<>>) =>
        /\ record.kind = "value"
        /\ record.value.val["rebotes_defensivos"] = ReboundSide(RawCell(11), 1)
        /\ record.value.val["rebotes_ofensivos"] = ReboundSide(RawCell(11), 2)
        /\ record.value.val["rebotes_totales"] = RawCell(10)

(***************************************************************************)
(* Properties of one game's extraction.                                    *)
(***************************************************************************)
Extracted == game # Pending

\* the document has both team headers and both statistics tables
Structured == Len(document.soup.h4) >= 2 /\ Len(document.soup.tables) >= 2

\* the rows of a table between its two header rows and its four total rows
PlayerRows(table) ==
    [i \in 1..(IF Len(table) > 6 THEN Len(table) - 6 ELSE 0) |-> table[i + 2]]

CompleteRows(table) == SelectSeq(PlayerRows(table), LAMBDA r : Len(r) >= 23)

IncompleteRows(table) == SelectSeq(PlayerRows(table), LAMBDA r : Len(r) <= 22)

\* C11: a row of 22 or fewer cells gives no record and one "incomplete"
\* warning with the game ID; the rows after it and the other team's table
\* are normalized all the same, in order.
C11_RowSkip ==
    (/\ Extracted
     /\ Structured
     /\ document.soup.datos_fecha \in {<<>>, GoodSoup.datos_fecha}
     /\ document.soup.parciales \in {<<>>, GoodSoup.parciales}) =>
        /\ game.kind = "value"
        /\ LET tables == document.soup.tables
               kept == CompleteRows(tables[1]) \o CompleteRows(tables[2])
               stats == game.value.player_stats
           IN  /\ Len(stats) = Len(kept)
               /\ \A k \in 1..Len(kept) :
                    /\ stats[k].val["nombre"] = strip(kept[k][2])
                    /\ stats[k].val["dorsal"] = strip_chars(strip(kept[k][1]), "*")
               /\ \A k \in 1..Len(stats) :
                    stats[k].val["equipo"] =
                        strip(document.soup.h4[IF k <= Len(CompleteRows(tables[1])) THEN 1 ELSE 2])
               /\ CopiesIn(Entry("warning", "incomplete_row", document.game_id), log)
                    = Len(IncompleteRows(tables[1])) + Len(IncompleteRows(tables[2]))

C11_Witness ==
    /\ Extracted
    /\ game.kind = "value"
    /\ Len(IncompleteRows(document.soup.tables[1])) = 1
    /\ Len(IncompleteRows(document.soup.tables[2])) = 2
    /\ Len(game.value.player_stats) = 3
    /\ CopiesIn(Entry("warning", "incomplete_row", document.game_id), log) = 3

\* the 27 keys of a PlayerStatRecord, in their order
PlayerKeys == <<
    "id_partido", "equipo", "titular", "dorsal", "nombre", "minutos", "puntos",
    "T2", "T2 %", "T3", "T3 %", "T1", "T1 %", "rebotes_defensivos", "rebotes_ofensivos",
    "rebotes_totales", "asistencias", "robos", "perdidas", "C", "tapones_favor",
    "tapones_contra", "mates", "faltas_cometidas", "faltas_recibidas", "+/-", "V" >>

PlayerKeySet == {PlayerKeys[i] : i \in 1..Len(PlayerKeys)}

\* the player records of the results list, in the order main aggregates them
Aggregated ==
    LET RECURSIVE upto(_)
        upto(n) == IF n = 0 THEN <<>> ELSE upto(n - 1) \o results[n].player_stats
    IN  upto(Len(results))

\* C12: every player record collected has exactly the 27 keys in their order
\* with a value under each, and is written to the player file under the same
\* 27 columns with those values.
C12_FullSchema ==
    /\ Len(PlayerKeys) = 27
    /\ Cardinality(PlayerKeySet) = 27
    /\ \A k \in 1..Len(Aggregated) :
        /\ Aggregated[k].keys = PlayerKeys
        /\ DOMAIN Aggregated[k].val = PlayerKeySet
    /\ (mainpc = "saved" /\ Aggregated # <<>>) =>
        /\ csv[1].data.header = PlayerKeys
        /\ Len(csv[1].data.rows) = Len(Aggregated)
        /\ \A k \in 1..Len(Aggregated) :
            /\ DOMAIN csv[1].data.rows[k] = PlayerKeySet
            /\ \A c \in PlayerKeySet : csv[1].data.rows[k][c] = Aggregated[k].val[c]

C12_Witness ==
    /\ mainpc = "saved"
    /\ Len(results) = 2
    /\ Len(Aggregated) >= 4
    /\ \E k \in 1..Len(Aggregated) : Aggregated[k].val["minutos"] = <<"0", "0", ":", "0", "0">>
    /\ \E k \in 1..Len(Aggregated) : Aggregated[k].val["minutos"] = <<"1", "2", ":", "3", "0">>
    /\ csv[1].data.header = PlayerKeys

\* the 13 columns of a GameInfoRecord, in their order
GameColumns == <<"id_partido", "jornada", "fecha", "hora", "pabellon", "publico",
                 "arbitro1", "arbitro2", "arbitro3",
                 "resultado_local", "resultado_visitante",
                 "parciales_local", "parciales_visitante">>

GameColumnSet == {GameColumns[i] : i \in 1..Len(GameColumns)}

WellFormedQuarters(block) ==
    \/ block = <<>>
    \/ LET tokens == split_ws(strip(block[1]))
       IN  \A i \in 1..Len(tokens) :
               Len(SelectSeq(tokens[i], LAMBDA ch : ch = "|")) = 1

MetadataFields == {"jornada", "fecha", "hora", "pabellon", "publico"}

\* C14: a document without the metadata block, with both team headers and
\* both tables, resolves to a result with the records of its complete rows and
\* a game-info record whose metadata fields are empty (quarter tokens, when the
\* document has any, being well formed).
C14_NoMetadataBlock ==
    (/\ Extracted
     /\ document.soup.datos_fecha = <<>>
     /\ Structured
     /\ WellFormedQuarters(document.soup.parciales)) =>
        /\ game.kind = "value"
        /\ Len(game.value.player_stats) =
              Len(CompleteRows(document.soup.tables[1]))
            + Len(CompleteRows(document.soup.tables[2]))
        /\ game.value.game_info.val["id_partido"] = document.game_id
        /\ \A c \in MetadataFields : ~HasKey(game.value.game_info, c)
        /\ results # <<>> /\ results[Len(results)] = game.value
        /\ mainpc = "saved" =>
              \A c \in MetadataFields : csv[2].data.rows[Len(results)][c] = <<>>

C14_Witness ==
    /\ mainpc = "saved"
    /\ document.soup.datos_fecha = <<>>
    /\ document.soup.datos_arbitros = <<>>
    /\ document.soup.parciales = <<>>
    /\ document.soup.resultado = <<>>
    /\ game.kind = "value"
    /\ Len(game.value.player_stats) >= 2
    /\ game.value.game_info.keys = <<"id_partido">>
    /\ csv[2].data.rows[Len(results)]["fecha"] = <<>>

\* t is raw without its leading and trailing whitespace
Trims(t, raw) ==
    /\ t = <<>> \/ (~IsSpace(t[1]) /\ ~IsSpace(t[Len(t)]))
    /\ \E i \in 0..Len(raw) :
        /\ i + Len(t) <= Len(raw)
        /\ SubSeq(raw, i + 1, i + Len(t)) = t
        /\ \A k \in 1..i : IsSpace(raw[k])
        /\ \A k \in (i + Len(t) + 1)..Len(raw) : IsSpace(raw[k])

\* C15: with exactly two result elements the home score is the first and the
\* away score the second; with any other number of them neither final-score
\* field is assigned and both are written empty.
C15_FinalScore ==
    (Extracted /\ game.kind = "value") =>
        LET elements == document.soup.resultado
            info == game.value.game_info
        IN  IF Len(elements) = 2
            THEN /\ HasKey(info, "resultado_local")
                 /\ HasKey(info, "resultado_visitante")
                 /\ Trims(info.val["resultado_local"], elements[1])
                 /\ Trims(info.val["resultado_visitante"], elements[2])
                 /\ mainpc = "saved" =>
                       /\ csv[2].data.rows[Len(results)]["resultado_local"]
                            = info.val["resultado_local"]
                       /\ csv[2].data.rows[Len(results)]["resultado_visitante"]
                            = info.val["resultado_visitante"]
            ELSE /\ ~HasKey(info, "resultado_local")
                 /\ ~HasKey(info, "resultado_visitante")
                 /\ mainpc = "saved" =>
                       /\ csv[2].data.rows[Len(results)]["resultado_local"] = <<>>
                       /\ csv[2].data.rows[Len(results)]["resultado_visitante"] = <<>>

C15_Witness ==
    /\ mainpc = "saved"
    /\ game.kind = "value"
    /\ Len(document.soup.resultado) = 1
    /\ document.soup.resultado[1] # <<>>
    /\ csv[2].data.rows[Len(results)]["resultado_local"] = <<>>
    /\ csv[2].data.rows[Len(results)]["resultado_visitante"] = <<>>

RefereeFields == <<"arbitro1", "arbitro2", "arbitro3">>

\* the comma-separated names of a referee text, the label left out
RefereeNames(text) == split(SelectSeq(text, LAMBDA ch : ch # "Árb:"), ",")

\* C16: of the n comma-separated names after the label, the i-th referee
\* field is the i-th name trimmed for i up to min(n, 3), a fourth and later
\* names reach no field, and the fields beyond n are empty.
C16_Referees ==
    (Extracted /\ game.kind = "value" /\ document.soup.datos_arbitros # <<>>) =>
        LET names == RefereeNames(document.soup.datos_arbitros[1])
            info == game.value.game_info
        IN  /\ \A i \in 1..3 :
                IF i <= Len(names)
                THEN /\ HasKey(info, RefereeFields[i])
                     /\ Trims(info.val[RefereeFields[i]], names[i])
                     /\ mainpc = "saved" =>
                           csv[2].data.rows[Len(results)][RefereeFields[i]]
                             = info.val[RefereeFields[i]]
                ELSE /\ ~HasKey(info, RefereeFields[i])
                     /\ mainpc = "saved" =>
                           csv[2].data.rows[Len(results)][RefereeFields[i]] = <<>>
            /\ \A k \in 1..Len(info.keys) : info.keys[k] \in GameColumnSet

C16_Witness ==
    /\ mainpc = "saved"
    /\ game.kind = "value"
    /\ document.soup.datos_arbitros # <<>>
    /\ Len(RefereeNames(document.soup.datos_arbitros[1])) = 4
    /\ csv[2].data.rows[Len(results)]["arbitro1"] = <<"P">>
    /\ csv[2].data.rows[Len(results)]["arbitro2"] = <<"G">>
    /\ csv[2].data.rows[Len(results)]["arbitro3"] = <<"L">>

\* how many game-info records of the results carry this ID
InfoRecords(id) ==
    Cardinality({i \in 1..Len(results) : results[i].game_info.val["id_partido"] = id})

\* the task of this ID was collected by main
Collected(id) ==
    pc[id] = "done" /\ \A k \in 1..Len(completed) : completed[k] # id

\* C17: no ID has two game-info records; a game that succeeded has exactly one
\* once collected; every player record's ID is that of a game-info record; a
\* game that failed, in transport or in extraction, has no record of either
\* kind; and the two files written hold exactly these records.
C17_OneInfoPerGame ==
    /\ \A id \in Ids : InfoRecords(id) <= 1
    /\ \A id \in Ids :
          (Collected(id) /\ fetched[id] # 0 /\ ~StructuralFailure(fetched[id]))
              => InfoRecords(id) = 1
    /\ PlayerIds \subseteq ResultIds
    /\ \A id \in FailedIds : id \notin ResultIds /\ id \notin PlayerIds
    /\ mainpc = "saved" =>
          /\ Len(csv[2].data.rows) = Len(results)
          /\ \A k \in 1..Len(results) :
                csv[2].data.rows[k]["id_partido"]
                    = results[k].game_info.val["id_partido"]
          /\ \A k \in 1..Len(csv[1].data.rows) :
                csv[1].data.rows[k]["id_partido"] \in ResultIds

C17_Witness ==
    /\ mainpc = "saved"
    /\ \E id \in RangeIds : fetched[id] = 2 /\ InfoRecords(id) = 0
    /\ \E id \in RangeIds : /\ fetched[id] = 1
                            /\ InfoRecords(id) = 1
                            /\ id \in PlayerIds
    /\ Len(csv[2].data.rows) = 1

\* the tokens of a quarters block, and the two sides of a well-formed token
QuarterTokens(block) == split_ws(strip(block[1]))

\* every token of the block has its pipe or lacks it, none has two
AtMostOnePipe(block) ==
    \A i \in 1..Len(QuarterTokens(block)) :
        Len(SelectSeq(QuarterTokens(block)[i], LAMBDA ch : ch = "|")) <= 1

PipeAt(token) == CHOOSE p \in 1..Len(token) : token[p] = "|"

HomeSide(token) == SubSeq(token, 1, PipeAt(token) - 1)

AwaySide(token) == SubSeq(token, PipeAt(token) + 1, Len(token))

\* C18: a quarter token without its pipe costs the game only its partials:
\* the game resolves to a result with the records of its complete rows and
\* the other game-info fields; with well-formed tokens the home and the away
\* partials are the tokens' sides in token order.
C18_QuarterTokenContained ==
    (/\ Extracted
     /\ Structured
     /\ document.soup.datos_fecha \in {<<>>, GoodSoup.datos_fecha}
     /\ document.soup.parciales # <<>>
     /\ AtMostOnePipe(document.soup.parciales)) =>
        /\ game.kind = "value"
        /\ Len(game.value.player_stats) =
              Len(CompleteRows(document.soup.tables[1]))
            + Len(CompleteRows(document.soup.tables[2]))
        /\ game.value.game_info.val["id_partido"] = document.game_id
        /\ HasKey(game.value.game_info, "resultado_local")
              <=> Len(document.soup.resultado) = 2
        /\ HasKey(game.value.game_info, "arbitro1")
              <=> document.soup.datos_arbitros # <<>>
        /\ WellFormedQuarters(document.soup.parciales) =>
              LET tokens == QuarterTokens(document.soup.parciales)
              IN  /\ game.value.game_info.val["parciales_local"]
                        = join([i \in 1..Len(tokens) |-> HomeSide(tokens[i])], ",")
                  /\ game.value.game_info.val["parciales_visitante"]
                        = join([i \in 1..Len(tokens) |-> AwaySide(tokens[i])], ",")

\* the same statement for the documents whose tokens all have their pipe
QuarterOrderPreserved ==
    WellFormedQuarters(document.soup.parciales) => C18_QuarterTokenContained

\* the requests of a game issued and not yet ended, by a failure of the
\* attempt or by the document read
InFlight(issued, failed, read) == issued - failed - (IF read # 0 THEN 1 ELSE 0)

\* C19: a game never has two requests in flight; its first request starts the
\* task and every later one is issued from the delay that followed the failure
\* of the previous attempt, all earlier attempts having failed and each having
\* had its delay; other games' attempts are not constrained by it.
C19_SequentialAttempts ==
    [][\A id \in Ids :
        /\ InFlight(requests'[id], failures'[id], fetched'[id]) \in {0, 1}
        /\ requests'[id] # requests[id] =>
              /\ requests'[id] = requests[id] + 1
              /\ InFlight(requests[id], failures[id], fetched[id]) = 0
              /\ IF requests[id] = 0
                 THEN pc[id] = "created"
                 ELSE /\ pc[id] = "retry_wait"
                      /\ failures[id] = requests[id]
                      /\ retry_delays[id] = requests[id]]_vars

C19_Witness ==
    /\ pc[1] = "in_flight" /\ requests[1] = 2 /\ failures[1] = 1 /\ retry_delays[1] = 1
    /\ pc[2] = "in_flight" /\ requests[2] = 3 /\ failures[2] = 2 /\ retry_delays[2] = 2

\* C20: once the document of a game was read no request is issued for that
\* game again, whatever its extraction gave, and a resolved game has caused
\* between 1 and 3 requests.
C20_NoRequestAfterFetch ==
    [][\A id \in Ids :
        /\ fetched[id] # 0 => requests'[id] = requests[id]
        /\ requests'[id] <= 3
        /\ pc'[id] = "done" => requests'[id] >= 1]_vars

C20_Witness ==
    /\ Finalized
    /\ \E id \in RangeIds : /\ fetched[id] # 0 /\ StructuralFailure(fetched[id])
                            /\ result[id] = None /\ requests[id] = 2
    /\ \E id \in RangeIds : fetched[id] = 4 /\ result[id] = None

====
